---- MODULE Spec2Model ----
\* A state-machine model of rekt_bot.py: the liquidation cluster aggregator
\* (process_liquidation), the alert units it spawns (send_alert with the two
\* cached Binance lookups), the pure classifier functions, the websocket
\* receive loop (binance_ws) and the shutdown of main under asyncio.run.
\*
\* Units.  USD amounts are whole dollars.  Clock readings (time.time()) are
\* whole seconds.  An open-interest change is kept in hundredths of a percent
\* (the code rounds it to 2 decimals), so the code's thresholds 10, 5, 8, 4
\* and 1.5 percent read 1000, 500, 800, 400 and 150 here.  A funding rate is
\* kept in ten-thousandths of a percent (the code rounds it to 4 decimals).
\* Python's None is the empty tuple and a number v is the 1-tuple <<v>>, so
\* that "is None" and a numeric comparison never meet on the same value.
EXTENDS Integers, Sequences, FiniteSets, TLC

VARIABLES
    now,              \* the reading time.time() gives at this moment
    clusters,         \* clusters: symbol -> list of (now, usd_size, side, price)
    tasks,            \* the send_alert tasks created by asyncio.create_task, in order
    _oi_cache,        \* _oi_cache: symbol -> (value, timestamp)
    _funding_cache,   \* _funding_cache: symbol -> (value, timestamp)
    _http_session,    \* _http_session: None or a ClientSession, open or closed
    ws,               \* position of binance_ws in its loop
    reconnect_delay,  \* binance_ws's local reconnect_delay
    nextId,           \* history: the number of the next accepted liquidation
    last,             \* history: arguments and locals of the last message handled
    fed,              \* history: the (usd_size, now) pairs given to process_liquidation
    probe,            \* arguments and results of the classifier calls under test
    main,             \* position of main() under asyncio.run
    tg_errors,        \* history: the number of "Telegram error" lines logged
    retries           \* history: sleeps of binance_ws since it last connected

vars == <<now, clusters, tasks, _oi_cache, _funding_cache, _http_session,
          ws, reconnect_delay, nextId, last, fed, probe, main, tg_errors, retries>>

\* ---------------------------------------------------------------- config
MIN_LIQ_USD == 100
CLUSTER_WINDOW == 60
OI_CACHE_TTL == 30
FUNDING_CACHE_TTL == 60

None == <<>>
Some(v) == <<v>>

\* ---------------------------------------------------------------- bounds
\* accepted liquidations per run of the aggregator specifications
MaxEvents == 3
\* events fed in the documented scenario
MaxFed == 5
\* send_alert tasks running concurrently over the caches
MaxTasks == 2
\* send_alert tasks run one after the other
MaxGets == 3
\* liquidations accepted from the websocket
MaxWsEvents == 2
\* liquidations accepted from the websocket in the runs of the whole loop,
\* with its reconnects and the shutdown
MaxLoopEvents == 1
\* sleeps of binance_ws counted since its last connection; the count stays
\* at this value from there on
MaxRetries == 7

Symbols == {"ABCUSDT", "XYZUSDT"}
\* (side, price) of the events fed
SidePrice == {<<"LONG", 1>>, <<"SHORT", 2>>}
\* usd_size of the events fed to the aggregator: below, at and above the floor
AggSizes == {0 - 100, 0, 99, 100, 200, 300}
\* clock readings of the aggregator runs: ages of 59, 60 and 61 seconds occur
AggTimes == {0, 1, 60, 61}
\* the documented scenario
ScenSizes == {40, 90, 100}
ScenTimes == {0, 10, 20, 30, 40}

\* ---------------------------------------------------------------- helpers
RECURSIVE SumUsd(_)
SumUsd(entries) ==
    IF entries = <<>> THEN 0
    ELSE Head(entries).usd + SumUsd(Tail(entries))

Ids(entries) == {entries[i].id : i \in 1..Len(entries)}

\* ---------------------------------------------------------------- process_liquidation
\* if usd_size < MIN_LIQ_USD: return
Discarded_none(usd_size) == FALSE
Discarded(usd_size) == usd_size < MIN_LIQ_USD

\* [x for x in symbol_clusters if x[0] > window_start]
Evict(entries, t) ==
    SelectSeq(entries, LAMBDA x : x.ts > t - CLUSTER_WINDOW)

\* if total >= MIN_LIQ_USD * 3
Fires_strict(total) == total > MIN_LIQ_USD * 3
Fires(total) == total >= MIN_LIQ_USD * 3

\* clusters[symbol].clear()
Cleared_keep(entries) == entries
Cleared(entries) == <<>>

\* the coroutine object send_alert(symbol, side, total, price) handed to
\* asyncio.create_task; entries is history: the liquidations summed in total;
\* session is the ClientSession the pending request was issued on; posts is
\* history: the number of session.post calls made
NewTask(symbol, side, total, price, entries) ==
    [symbol |-> symbol, side |-> side, total |-> total, price |-> price,
     pc |-> "start", entries |-> entries,
     oi_now |-> 0, oi_src |-> "none", oi_current |-> 0, hist |-> "none",
     oi_change |-> None,
     f_now |-> 0, funding |-> None,
     priority |-> "none", mm |-> "none",
     session |-> "none", posts |-> 0]

\* a coroutine that returned: its locals are gone; what its get_binance_oi
\* call read and returned is kept as history
Finished(task) ==
    [NewTask(task.symbol, task.side, task.total, task.price, task.entries)
        EXCEPT !.pc = "done", !.oi_now = task.oi_now, !.oi_src = task.oi_src,
               !.oi_change = task.oi_change, !.posts = task.posts]

process_liquidation(symbol, side, usd_size, price) ==
    IF Discarded(usd_size)
    THEN /\ UNCHANGED <<clusters, tasks, nextId>>
         /\ last' = [kind |-> "discarded", symbol |-> symbol, usd_size |-> usd_size,
                     side |-> side, price |-> price, total |-> 0,
                     fired |-> FALSE, logged |-> 0]
    ELSE LET kept == Evict(clusters[symbol], now)
             symbol_clusters ==
                 Append(kept, [ts |-> now, usd |-> usd_size, side |-> side,
                               price |-> price, id |-> nextId])
             total == SumUsd(symbol_clusters)
         IN  /\ nextId' = nextId + 1
             /\ IF Fires(total)
                THEN /\ tasks' = Append(tasks, NewTask(symbol, side, total, price,
                                                       Ids(symbol_clusters)))
                     /\ clusters' = [clusters EXCEPT ![symbol] = Cleared(symbol_clusters)]
                     /\ last' = [kind |-> "accepted", symbol |-> symbol,
                                 usd_size |-> usd_size, side |-> side, price |-> price,
                                 total |-> total, fired |-> TRUE,
                                 logged |-> Len(Cleared(symbol_clusters))]
                ELSE /\ UNCHANGED tasks
                     /\ clusters' = [clusters EXCEPT ![symbol] = symbol_clusters]
                     /\ last' = [kind |-> "accepted", symbol |-> symbol,
                                 usd_size |-> usd_size, side |-> side, price |-> price,
                                 total |-> total, fired |-> FALSE, logged |-> 0]

\* ---------------------------------------------------------------- initial state
Init ==
    /\ now = 0
    /\ clusters = [s \in Symbols |-> <<>>]
    /\ tasks = <<>>
    /\ _oi_cache = <<>>
    /\ _funding_cache = <<>>
    /\ _http_session = "None"
    /\ ws = "connecting"
    /\ reconnect_delay = 1
    /\ nextId = 1
    /\ last = [kind |-> "none"]
    /\ fed = <<>>
    /\ probe = [kind |-> "none"]
    /\ main = "running"
    /\ tg_errors = 0
    /\ retries = 0

\* ---------------------------------------------------------------- aggregator runs
\* the clock moves on between two calls
TickAgg ==
    /\ \E t \in AggTimes : t > now /\ now' = t
    /\ UNCHANGED <<clusters, tasks, _oi_cache, _funding_cache, _http_session,
                   ws, reconnect_delay, nextId, last, fed, probe, main, tg_errors, retries>>

\* one call of process_liquidation
Observe ==
    /\ nextId <= MaxEvents
    /\ \E symbol \in Symbols, sp \in SidePrice, usd_size \in AggSizes :
           process_liquidation(symbol, sp[1], usd_size, sp[2])
    /\ UNCHANGED <<now, _oi_cache, _funding_cache, _http_session, ws,
                   reconnect_delay, fed, probe, main, tg_errors, retries>>

NextAgg == TickAgg \/ Observe

SpecAgg == Init /\ [][NextAgg]_vars

\* ---------------------------------------------------------------- the documented scenario
TickScen ==
    /\ \E t \in ScenTimes : t > now /\ now' = t
    /\ UNCHANGED <<clusters, tasks, _oi_cache, _funding_cache, _http_session,
                   ws, reconnect_delay, nextId, last, fed, probe, main, tg_errors, retries>>

\* one call of process_liquidation for ABCUSDT, logged in fed
Feed ==
    /\ Len(fed) < MaxFed
    /\ \E sp \in SidePrice, usd_size \in ScenSizes :
           /\ process_liquidation("ABCUSDT", sp[1], usd_size, sp[2])
           /\ fed' = Append(fed, <<usd_size, now>>)
    /\ UNCHANGED <<now, _oi_cache, _funding_cache, _http_session, ws,
                   reconnect_delay, probe, main, tg_errors, retries>>

NextScenario == TickScen \/ Feed

SpecScenario == Init /\ [][NextScenario]_vars


\* ---------------------------------------------------------------- classifier
Abs(x) == IF x < 0 THEN 0 - x ELSE x

\* get_priority(total, oi_change); "oi_change and ..." is false for None and for 0
get_priority_noabs(total, oi_change) ==
    IF total > 2000000 \/ (oi_change # None /\ oi_change[1] # 0 /\ oi_change[1] > 1000)
    THEN "HIGH"
    ELSE IF total > 500000 \/ (oi_change # None /\ oi_change[1] # 0 /\ oi_change[1] > 500)
    THEN "MEDIUM"
    ELSE "LOW"
get_priority(total, oi_change) ==
    IF total > 2000000 \/ (oi_change # None /\ oi_change[1] # 0 /\ Abs(oi_change[1]) > 1000)
    THEN "HIGH"
    ELSE IF total > 500000 \/ (oi_change # None /\ oi_change[1] # 0 /\ Abs(oi_change[1]) > 500)
    THEN "MEDIUM"
    ELSE "LOW"

get_mm_label(oi_change, funding) ==
    IF oi_change = None THEN "UNCLEAR"
    ELSE IF oi_change[1] > 800 THEN "AGGRESSIVE BUILD-UP"
    ELSE IF oi_change[1] > 400 THEN "POSITION BUILD-UP"
    ELSE IF oi_change[1] > 150 THEN "LONG INTEREST"
    ELSE IF oi_change[1] < 0 - 800 THEN "AGGRESSIVE CLOSE-OUT"
    ELSE IF oi_change[1] < 0 - 400 THEN "POSITION CLOSE-OUT"
    ELSE IF oi_change[1] < 0 - 150 THEN "SHORT INTEREST"
    ELSE "SIDEWAYS"

\* ---------------------------------------------------------------- the cached lookups
\* Python floats are IEEE doubles.  A positive double is kept as its
\* significand m, a sequence of at most 53 bits with the most significant
\* bit first, and its exponent e: the value is m * 2^e.
RECURSIVE BitsOf(_)
BitsOf(n) == IF n = 0 THEN <<>> ELSE Append(BitsOf(n \div 2), n % 2)

RECURSIVE BitsValue(_)
BitsValue(bits) ==
    IF bits = <<>> THEN 0
    ELSE 2 * BitsValue(SubSeq(bits, 1, Len(bits) - 1)) + bits[Len(bits)]

\* the bits of bits * c + carry, for a small natural c and carry >= 0 (the
\* test of carry has it computed before the next digit is)
RECURSIVE MulBits(_, _, _)
MulBits(bits, c, carry) ==
    IF carry < 0 \/ bits = <<>> THEN BitsOf(carry)
    ELSE LET v == bits[Len(bits)] * c + carry
         IN  Append(MulBits(SubSeq(bits, 1, Len(bits) - 1), c, v \div 2), v % 2)

RECURSIVE IncBits(_)
IncBits(bits) ==
    IF bits = <<>> THEN <<1>>
    ELSE IF bits[Len(bits)] = 0 THEN [bits EXCEPT ![Len(bits)] = 1]
    ELSE Append(IncBits(SubSeq(bits, 1, Len(bits) - 1)), 0)

\* the double nearest to bits * 2^e (plus something below the last bit when
\* sticky), ties to even: the rounding of every float operation
RoundToDouble(bits, e, sticky) ==
    IF Len(bits) <= 53 THEN [m |-> bits, e |-> e]
    ELSE LET head == SubSeq(bits, 1, 53)
             rest == sticky \/ \E k \in 55..Len(bits) : bits[k] = 1
             up == bits[54] = 1 /\ (rest \/ head[53] = 1)
             e1 == e + Len(bits) - 53
             inc == IncBits(head)
         IN  IF ~up THEN [m |-> head, e |-> e1]
             ELSE IF Len(inc) = 54 THEN [m |-> SubSeq(inc, 1, 53), e |-> e1 + 1]
             ELSE [m |-> inc, e |-> e1]

\* long division: the first 54 significant bits of the quotient whose bits
\* so far are acc, with remainder r after k bits behind the binary point;
\* a quotient below the smallest double is not divided further
RECURSIVE DivBits(_, _, _, _)
DivBits(r, d, acc, k) ==
    IF k > 1100 \/ Len(acc) >= 54 \/ (r = 0 /\ acc # <<>>)
    THEN RoundToDouble(acc, 0 - k, r # 0)
    ELSE LET bit == IF 2 * r >= d THEN 1 ELSE 0
         IN  DivBits(2 * r - bit * d, d,
                     IF acc = <<>> /\ bit = 0 THEN <<>> ELSE Append(acc, bit),
                     k + 1)

\* the float n / d for naturals n > 0 and d > 0; float(text) of a decimal
\* text with the value n / d is the same double
FloatDiv(n, d) == DivBits(n % d, d, BitsOf(n \div d), 0)

\* the float x * c for a small natural c
FloatMul(x, c) == RoundToDouble(MulBits(x.m, c, 0), x.e, FALSE)

\* round(x, digits) in units of 10^-digits, scale = 10^digits: the integer
\* nearest to x * scale, an exact tie going to the even one
RoundFloat(x, scale) ==
    LET q == MulBits(x.m, scale, 0)
        frac == 0 - x.e
        len == Len(q)
    IN  IF frac <= 0 THEN BitsValue(q) * 2 ^ x.e
        ELSE IF frac > len THEN 0
        ELSE LET int == BitsValue(SubSeq(q, 1, len - frac))
                 half == q[len - frac + 1] = 1
                 rest == \E k \in (len - frac + 2)..len : q[k] = 1
             IN  IF ~half THEN int
                 ELSE IF rest \/ int % 2 = 1 THEN int + 1
                 ELSE int

\* oi_change = (oi_current - oi_prev) / oi_prev * 100; round(oi_change, 2),
\* in hundredths of a percent
OiChangePct(oi_current, oi_prev) ==
    LET diff == oi_current - oi_prev
    IN  IF diff = 0 THEN 0
        ELSE IF diff > 0 THEN RoundFloat(FloatMul(FloatDiv(diff, oi_prev), 100), 100)
        ELSE 0 - RoundFloat(FloatMul(FloatDiv(0 - diff, oi_prev), 100), 100)

\* funding = float(lastFundingRate); round(funding * 100, 4), in
\* ten-thousandths of a percent; lastFundingRate is given with 8 decimals,
\* as the integer rate * 10^8
FundingPct(rate) ==
    IF rate = 0 THEN 0
    ELSE IF rate > 0 THEN RoundFloat(FloatMul(FloatDiv(rate, 100000000), 100), 10000)
    ELSE 0 - RoundFloat(FloatMul(FloatDiv(0 - rate, 100000000), 100), 10000)

\* the numbers the replies of the specifications below carry: their
\* conversions are computed once and looked up from then on
ReplyOiPairs == {<<110, 100>>, <<110, 110>>}
ReplyRates == {0 - 3749}
OiChangeTable == [p \in ReplyOiPairs |-> OiChangePct(p[1], p[2])]
FundingTable == [rate \in ReplyRates |-> FundingPct(rate)]

\* OiChangePct and FundingPct of any numbers
OiChangeOf(oi_current, oi_prev) ==
    IF <<oi_current, oi_prev>> \in ReplyOiPairs
    THEN OiChangeTable[<<oi_current, oi_prev>>]
    ELSE OiChangePct(oi_current, oi_prev)
FundingOf(rate) ==
    IF rate \in ReplyRates THEN FundingTable[rate] ELSE FundingPct(rate)

\* if symbol in cache: value, timestamp = cache[symbol]; if now - timestamp < ttl
CacheHit_inclusive(cache, symbol, t, ttl) ==
    symbol \in DOMAIN cache /\ t - cache[symbol][2] <= ttl
CacheHit(cache, symbol, t, ttl) ==
    symbol \in DOMAIN cache /\ t - cache[symbol][2] < ttl

\* cache[symbol] = (value, now)
Put(cache, symbol, value, t) ==
    [s \in DOMAIN cache \cup {symbol} |->
        IF s = symbol THEN <<value, t>> ELSE cache[s]]

\* what get_binance_oi returns and caches when the openInterest request
\* fails, raises or reports an open interest of 0
OiFailure == None

\* the value of oi_change after the openInterestHist request
HistChange(oi_current, h) ==
    IF h.kind = "ok" /\ Len(h.samples) >= 2 /\ h.samples[2] > 0
    THEN OiChangeOf(oi_current, h.samples[2])
    ELSE 0

\* the ClientSession get_http_session returns: the one made while main runs
\* its try block, which it goes on returning, closed, until
\* close_http_session drops it, or one made after that
get_http_session ==
    IF main = "running" \/ _http_session = "closed" THEN "first" ELSE "later"

\* the session was closed by close_http_session: session.get and
\* session.post on it raise at once; a request that was pending on it when it
\* was closed fails, unless its reply had arrived before
SessionClosed(session) == session = "first" /\ main # "running"

\* what a task going on from one network wait to the next reads and writes
Context(task) ==
    [task |-> task, oi_cache |-> _oi_cache, funding_cache |-> _funding_cache,
     errors |-> tg_errors]

\* send_alert from the return of get_binance_funding to its session.post:
\* the priority and the label are computed and the message is sent; on a
\* closed session the post raises, the error is logged and send_alert returns
BuildAlert(c) ==
    LET task == [c.task EXCEPT
                   !.priority = get_priority(c.task.total, c.task.oi_change),
                   !.mm = get_mm_label(c.task.oi_change, c.task.funding),
                   !.posts = c.task.posts + 1]
    IN  IF SessionClosed(get_http_session)
        THEN [c EXCEPT !.task = Finished(task), !.errors = c.errors + 1]
        ELSE [c EXCEPT !.task = [task EXCEPT !.pc = "tg_post",
                                             !.session = get_http_session]]

\* send_alert from the call of get_binance_funding to its next network wait
EnterFunding(c, t) ==
    LET symbol == c.task.symbol
    IN  IF CacheHit(c.funding_cache, symbol, t, FUNDING_CACHE_TTL)
        THEN BuildAlert([c EXCEPT !.task = [c.task EXCEPT
                                              !.f_now = t,
                                              !.funding = c.funding_cache[symbol][1]]])
        ELSE IF SessionClosed(get_http_session)
        THEN BuildAlert([c EXCEPT !.task = [c.task EXCEPT !.f_now = t, !.funding = None],
                                  !.funding_cache = Put(c.funding_cache, symbol, None, t)])
        ELSE [c EXCEPT !.task = [c.task EXCEPT !.pc = "funding_get", !.f_now = t,
                                               !.session = get_http_session]]

\* send_alert from its start to its next network wait
EnterOi(c, t) ==
    LET symbol == c.task.symbol
    IN  IF CacheHit(c.oi_cache, symbol, t, OI_CACHE_TTL)
        THEN EnterFunding([c EXCEPT !.task = [c.task EXCEPT
                                                !.oi_now = t, !.oi_src = "cache",
                                                !.oi_change = c.oi_cache[symbol][1]]], t)
        ELSE IF SessionClosed(get_http_session)
        THEN EnterFunding([c EXCEPT !.task = [c.task EXCEPT
                                                !.oi_now = t, !.oi_src = "fetch",
                                                !.oi_change = OiFailure],
                                    !.oi_cache = Put(c.oi_cache, symbol, OiFailure, t)], t)
        ELSE [c EXCEPT !.task = [c.task EXCEPT !.pc = "oi_get", !.oi_now = t,
                                               !.oi_src = "fetch",
                                               !.session = get_http_session]]

\* task i has gone on to its next network wait, or to its end, as c tells;
\* on its way it called get_http_session, which makes a session if none is
Resume(i, c) ==
    /\ tasks' = [tasks EXCEPT ![i] = c.task]
    /\ _oi_cache' = c.oi_cache
    /\ _funding_cache' = c.funding_cache
    /\ tg_errors' = c.errors
    /\ _http_session' = IF _http_session = "None" THEN "open" ELSE _http_session

\* replies of the three Binance endpoints and of Telegram
OiReplies ==
    {[kind |-> "error"], [kind |-> "exception"]}
    \cup {[kind |-> "ok", openInterest |-> v] : v \in {0, 110}}
HistReplies ==
    {[kind |-> "error"], [kind |-> "exception"]}
    \cup {[kind |-> "ok", samples |-> x] : x \in {<<>>, <<100>>, <<90, 100>>, <<90, 110>>, <<100, 0>>}}
FundingReplies ==
    {[kind |-> "error"], [kind |-> "exception"]}
    \cup {[kind |-> "ok", lastFundingRate |-> v] : v \in {0 - 3749}}
TelegramReplies == {"200", "error", "exception"}

\* the event loop runs a created task for the first time
Run(i) ==
    /\ tasks[i].pc = "start"
    /\ Resume(i, EnterOi(Context(tasks[i]), now))
    /\ UNCHANGED <<now, clusters, ws, reconnect_delay,
                   nextId, last, fed, probe, main, retries>>

\* get_binance_oi from the outcome h of its openInterestHist request to the
\* next network wait of send_alert
AfterHist(task, h) ==
    LET oi_change == Some(HistChange(task.oi_current, h))
        t == [task EXCEPT
                !.oi_change = oi_change,
                !.oi_current = 0,
                !.hist = IF h.kind # "ok" THEN "failed"
                         ELSE IF Len(h.samples) < 2 THEN "short"
                         ELSE "ok"]
    IN  EnterFunding([Context(t) EXCEPT
                        !.oi_cache = Put(_oi_cache, task.symbol, oi_change,
                                         task.oi_now)], now)

\* the openInterest request of get_binance_oi completes; the
\* openInterestHist request goes out on the same session, and raises at
\* once if that session was closed in the meantime
OiResponse(i, r) ==
    /\ tasks[i].pc = "oi_get"
    /\ IF r.kind = "ok" /\ r.openInterest # 0
       THEN IF SessionClosed(tasks[i].session)
            THEN Resume(i, AfterHist([tasks[i] EXCEPT !.oi_current = r.openInterest],
                                     [kind |-> "exception"]))
            ELSE /\ tasks' = [tasks EXCEPT ![i].pc = "oi_hist",
                                           ![i].oi_current = r.openInterest]
                 /\ UNCHANGED <<_oi_cache, _funding_cache, _http_session, tg_errors>>
       ELSE Resume(i, EnterFunding(
                         [Context([tasks[i] EXCEPT !.oi_change = OiFailure]) EXCEPT
                            !.oi_cache = Put(_oi_cache, tasks[i].symbol, OiFailure,
                                             tasks[i].oi_now)], now))
    /\ UNCHANGED <<now, clusters, ws, reconnect_delay,
                   nextId, last, fed, probe, main, retries>>

\* the openInterestHist request of get_binance_oi completes
OiHistResponse(i, h) ==
    /\ tasks[i].pc = "oi_hist"
    /\ Resume(i, AfterHist(tasks[i], h))
    /\ UNCHANGED <<now, clusters, ws, reconnect_delay,
                   nextId, last, fed, probe, main, retries>>

\* the premiumIndex request completes, a failure ending the task at once
FundingResponse_raises(i, r) ==
    /\ tasks[i].pc = "funding_get"
    /\ LET funding == IF r.kind = "ok" THEN Some(FundingOf(r.lastFundingRate)) ELSE None
           c == [Context([tasks[i] EXCEPT !.funding = funding]) EXCEPT
                   !.funding_cache = Put(_funding_cache, tasks[i].symbol, funding,
                                         tasks[i].f_now)]
       IN  Resume(i, IF r.kind = "ok" THEN BuildAlert(c)
                     ELSE [c EXCEPT !.task = Finished(tasks[i])])
    /\ UNCHANGED <<now, clusters, ws, reconnect_delay,
                   nextId, last, fed, probe, main, retries>>

\* the premiumIndex request of get_binance_funding completes
FundingResponse(i, r) ==
    /\ tasks[i].pc = "funding_get"
    /\ LET funding == IF r.kind = "ok" THEN Some(FundingOf(r.lastFundingRate)) ELSE None
       IN  Resume(i, BuildAlert(
                         [Context([tasks[i] EXCEPT !.funding = funding]) EXCEPT
                            !.funding_cache = Put(_funding_cache, tasks[i].symbol, funding,
                                                  tasks[i].f_now)]))
    /\ UNCHANGED <<now, clusters, ws, reconnect_delay,
                   nextId, last, fed, probe, main, retries>>

\* the sendMessage request completes, a failure sending the message again
TelegramResponse_retry(i, r) ==
    /\ tasks[i].pc = "tg_post"
    /\ IF r = "200"
       THEN /\ tasks' = [tasks EXCEPT ![i] = Finished(tasks[i])]
            /\ UNCHANGED tg_errors
       ELSE LET c == BuildAlert([Context(tasks[i]) EXCEPT !.errors = tg_errors + 1])
            IN  tasks' = [tasks EXCEPT ![i] = c.task] /\ tg_errors' = c.errors
    /\ UNCHANGED <<now, clusters, _oi_cache, _funding_cache, _http_session, ws,
                   reconnect_delay, nextId, last, fed, probe, main, retries>>

\* the sendMessage request of send_alert completes: a status other than 200
\* and an exception are logged, and send_alert returns whatever the outcome
TelegramResponse(i, r) ==
    /\ tasks[i].pc = "tg_post"
    /\ tasks' = [tasks EXCEPT ![i] = Finished(tasks[i])]
    /\ tg_errors' = IF r = "200" THEN tg_errors ELSE tg_errors + 1
    /\ UNCHANGED <<now, clusters, _oi_cache, _funding_cache, _http_session, ws,
                   reconnect_delay, nextId, last, fed, probe, main, retries>>

\* ---------------------------------------------------------------- alert units over the caches
\* clock readings of the cache runs: ages of 10, 30 and 31 seconds occur
CacheTimes == {0, 10, 30, 31}
\* the symbol of the cache runs
CacheSymbols == {"XYZUSDT"}

TickCache ==
    /\ \E t \in CacheTimes : t > now /\ now' = t
    /\ UNCHANGED <<clusters, tasks, _oi_cache, _funding_cache, _http_session,
                   ws, reconnect_delay, nextId, last, fed, probe, main, tg_errors, retries>>

\* one liquidation large enough to fire at once
Dispatch ==
    /\ Len(tasks) < MaxTasks
    /\ \E symbol \in CacheSymbols :
           process_liquidation(symbol, "LONG", 3 * MIN_LIQ_USD, 1)
    /\ UNCHANGED <<now, _oi_cache, _funding_cache, _http_session, ws,
                   reconnect_delay, fed, probe, main, tg_errors, retries>>

RunTask == \E i \in 1..Len(tasks) : Run(i)
OiReply == \E i \in 1..Len(tasks), r \in OiReplies : OiResponse(i, r)
OiHistReply == \E i \in 1..Len(tasks), h \in HistReplies : OiHistResponse(i, h)
FundingReply == \E i \in 1..Len(tasks), r \in FundingReplies : FundingResponse(i, r)
TelegramReply == \E i \in 1..Len(tasks), r \in TelegramReplies : TelegramResponse(i, r)

NextCache ==
    TickCache \/ Dispatch \/ RunTask \/ OiReply \/ OiHistReply \/ FundingReply
    \/ TelegramReply

SpecCache == Init /\ [][NextCache]_vars

\* ---------------------------------------------------------------- alert units one at a time
\* clock readings of the sequential runs: both TTLs are reached and passed
SeqTimes == {0, 10, 30, 31, 60, 61}

TickSeq ==
    /\ \E t \in SeqTimes : t > now /\ now' = t
    /\ UNCHANGED <<clusters, tasks, _oi_cache, _funding_cache, _http_session,
                   ws, reconnect_delay, nextId, last, fed, probe, main, tg_errors, retries>>

\* one liquidation large enough to fire at once, after the alert before it ended
DispatchSeq ==
    /\ Len(tasks) < MaxGets
    /\ \A i \in 1..Len(tasks) : tasks[i].pc = "done"
    /\ \E symbol \in CacheSymbols :
           process_liquidation(symbol, "LONG", 3 * MIN_LIQ_USD, 1)
    /\ UNCHANGED <<now, _oi_cache, _funding_cache, _http_session, ws,
                   reconnect_delay, fed, probe, main, tg_errors, retries>>

NextSeq ==
    TickSeq \/ DispatchSeq \/ RunTask \/ OiReply \/ OiHistReply \/ FundingReply
    \/ TelegramReply

SpecSeq == Init /\ [][NextSeq]_vars

\* ---------------------------------------------------------------- binance_ws
\* forceOrder messages: o.s, o.ap, o.q, o.S
WsMessages ==
    {[s |-> "ABCUSDT", ap |-> 2, q |-> 150, S |-> "SELL"],
     [s |-> "ABCUSDT", ap |-> 2, q |-> 25, S |-> "BUY"],
     [s |-> "ABCUSDT", ap |-> 2, q |-> 75, S |-> "BUY"],
     [s |-> "XYZUSDT", ap |-> 2, q |-> 150, S |-> "BUY"]}
WsTimes == {0, 31}
\* replies to the alert units of the websocket runs
WsOiReplies == {[kind |-> "error"], [kind |-> "ok", openInterest |-> 110]}
WsHistReplies == {[kind |-> "ok", samples |-> <<100>>], [kind |-> "ok", samples |-> <<90, 100>>]}
WsFundingReplies == {[kind |-> "exception"], [kind |-> "ok", lastFundingRate |-> 0 - 3749]}

\* the loop is at "async for msg in ws": process_liquidation has no await
\* that suspends, and send_alert runs as a task of its own
ReceiveReady_awaiting == ws = "connected" /\ \A i \in 1..Len(tasks) : tasks[i].pc = "done"
ReceiveReady == ws = "connected"

\* asyncio.run starts main: run_server, then binance_ws up to its first
\* wait, in session.ws_connect; get_http_session makes the session on the way
WsStart ==
    /\ main = "running"
    /\ ws = "connecting"
    /\ _http_session = "None"
    /\ _http_session' = "open"
    /\ UNCHANGED <<now, clusters, tasks, _oi_cache, _funding_cache, ws,
                   reconnect_delay, nextId, last, fed, probe, main, tg_errors, retries>>

\* session.ws_connect succeeds
WsConnect ==
    /\ ws = "connecting"
    /\ _http_session = "open"
    /\ ws' = "connected"
    /\ reconnect_delay' = 1
    /\ retries' = 0
    /\ UNCHANGED <<now, clusters, tasks, _oi_cache, _funding_cache, _http_session,
                   nextId, last, fed, probe, main, tg_errors>>

\* session.ws_connect raises
WsConnectFail ==
    /\ ws = "connecting"
    /\ _http_session = "open"
    /\ ws' = "backoff"
    /\ UNCHANGED <<now, clusters, tasks, _oi_cache, _funding_cache, _http_session,
                   reconnect_delay, nextId, last, fed, probe, main, tg_errors, retries>>

\* a TEXT message with all its fields
WsTextOn(symbol) ==
    /\ ReceiveReady
    /\ nextId <= MaxWsEvents
    /\ \E m \in WsMessages :
           /\ m.s = symbol
           /\ LET price == m.ap
                  quantity == m.q
                  usd_size == price * quantity
                  side == IF m.S = "SELL" THEN "LONG" ELSE "SHORT"
              IN  process_liquidation(m.s, side, usd_size, price)
    /\ UNCHANGED <<now, _oi_cache, _funding_cache, _http_session, ws,
                   reconnect_delay, fed, probe, main, tg_errors, retries>>

WsText == \E symbol \in Symbols : WsTextOn(symbol)

\* a TEXT message that is no JSON, has no symbol or lacks a field, or a
\* message of another type: the loop goes on to the next message
WsSkip ==
    /\ ReceiveReady
    /\ last' = [kind |-> "skipped"]
    /\ UNCHANGED <<now, clusters, tasks, _oi_cache, _funding_cache, _http_session,
                   ws, reconnect_delay, nextId, fed, probe, main, tg_errors, retries>>

\* a CLOSE or ERROR message that would end binance_ws
WsClose_return ==
    /\ ReceiveReady
    /\ ws' = "stopped"
    /\ UNCHANGED <<now, clusters, tasks, _oi_cache, _funding_cache, _http_session,
                   reconnect_delay, nextId, last, fed, probe, main, tg_errors, retries>>

\* a CLOSE or ERROR message, the end of the stream or a transport error
WsClose ==
    /\ ReceiveReady
    /\ ws' = "backoff"
    /\ UNCHANGED <<now, clusters, tasks, _oi_cache, _funding_cache, _http_session,
                   reconnect_delay, nextId, last, fed, probe, main, tg_errors, retries>>

\* min(reconnect_delay * 2, 30)
NextDelay_uncapped(delay) == delay * 2
NextDelay(delay) == IF delay * 2 < 30 THEN delay * 2 ELSE 30

\* await asyncio.sleep(reconnect_delay); reconnect_delay = min(reconnect_delay * 2, 30)
WsSleep ==
    /\ ws = "backoff"
    /\ ws' = "connecting"
    /\ reconnect_delay' = NextDelay(reconnect_delay)
    /\ retries' = IF retries < MaxRetries THEN retries + 1 ELSE MaxRetries
    /\ UNCHANGED <<now, clusters, tasks, _oi_cache, _funding_cache, _http_session,
                   nextId, last, fed, probe, main, tg_errors>>

TickWs ==
    /\ \E t \in WsTimes : t > now /\ now' = t
    /\ UNCHANGED <<clusters, tasks, _oi_cache, _funding_cache, _http_session,
                   ws, reconnect_delay, nextId, last, fed, probe, main, tg_errors, retries>>

WsOiReply == \E i \in 1..Len(tasks), r \in WsOiReplies : OiResponse(i, r)
WsOiHistReply == \E i \in 1..Len(tasks), h \in WsHistReplies : OiHistResponse(i, h)
WsFundingReply == \E i \in 1..Len(tasks), r \in WsFundingReplies : FundingResponse(i, r)

Next ==
    TickWs \/ WsStart \/ WsConnect \/ WsConnectFail \/ WsText \/ WsSkip \/ WsClose \/ WsSleep
    \/ RunTask \/ WsOiReply \/ WsOiHistReply \/ WsFundingReply \/ TelegramReply

Spec == Init /\ [][Next]_vars

\* the receive loop over a connection that stays up
NextIngest ==
    WsStart \/ WsConnect \/ WsText \/ WsSkip
    \/ RunTask \/ WsOiReply \/ WsOiHistReply \/ WsFundingReply \/ TelegramReply

SpecIngest == Init /\ [][NextIngest]_vars

\* ---------------------------------------------------------------- main and asyncio.run
\* a task that is not done yet
InFlight(task) == task.pc \notin {"done", "cancelled"}

\* a coroutine ended by the CancelledError thrown in at its await
Cancelled(task) == [Finished(task) EXCEPT !.pc = "cancelled"]

\* task.cancel() on every task given that has not ended
CancelAll(ts) ==
    [i \in 1..Len(ts) |-> IF InFlight(ts[i]) THEN Cancelled(ts[i]) ELSE ts[i]]

\* close_http_session, called in the finally block of main, up to the next
\* await of main that suspends: the _http_session.close() itself or, when that
\* close returns without suspending (the connector has nothing to wait for),
\* _http_session = None and the server_runner.cleanup() that follows
MainFinally ==
    \E suspends \in BOOLEAN :
        IF suspends
        THEN main' = "closing" /\ _http_session' = "closed"
        ELSE main' = "cleanup" /\ _http_session' = "None"

\* main is cancelled.  While it awaits run_server there is no session to
\* close and no server_runner to clean up: main returns, and asyncio.run
\* cancels the tasks that are left.  While it awaits binance_ws, the
\* CancelledError is thrown into binance_ws.  From the sleep it goes up to
\* main, and from session.ws_connect to the break at the except of the loop:
\* main runs its finally block.  From "async for msg in ws" it first leaves
\* "async with session.ws_connect(...)", which awaits ws.close(): when that
\* suspends, the loop has been left, main is still in its try block and the
\* session is open.  A KeyboardInterrupt reaches main as the cancellation of
\* main alone (the signal handler of asyncio.run, Python 3.11 on) or as the
\* cancellation of every task at once (the cleanup of asyncio.run, before
\* 3.11).
MainCancelled ==
    /\ main = "running"
    /\ ws # "leaving"
    /\ IF _http_session = "None"
       THEN /\ main' = "exited"
            /\ ws' = "stopped"
            /\ tasks' = CancelAll(tasks)
            /\ UNCHANGED _http_session
       ELSE /\ \E suspends \in BOOLEAN :
                   IF ws = "connected" /\ suspends
                   THEN ws' = "leaving" /\ UNCHANGED <<main, _http_session>>
                   ELSE ws' = "stopped" /\ MainFinally
            /\ \E together \in BOOLEAN :
                   tasks' = IF together THEN CancelAll(tasks) ELSE tasks
    /\ UNCHANGED <<now, clusters, _oi_cache, _funding_cache, reconnect_delay,
                   nextId, last, fed, probe, tg_errors, retries>>

\* ws.close() returns: the CancelledError reaches the except of the loop,
\* binance_ws breaks and returns, and main runs its finally block
WsLeft ==
    /\ main = "running"
    /\ ws = "leaving"
    /\ ws' = "stopped"
    /\ MainFinally
    /\ UNCHANGED <<now, clusters, tasks, _oi_cache, _funding_cache, reconnect_delay,
                   nextId, last, fed, probe, tg_errors, retries>>

\* _http_session.close() returns: close_http_session sets _http_session =
\* None and main goes on to the await of server_runner.cleanup()
MainSessionClosed ==
    /\ main = "closing"
    /\ main' = "cleanup"
    /\ _http_session' = "None"
    /\ UNCHANGED <<now, clusters, tasks, _oi_cache, _funding_cache, ws,
                   reconnect_delay, nextId, last, fed, probe, tg_errors, retries>>

\* server_runner.cleanup() and main return; asyncio.run cancels the tasks
\* that are left, runs the loop until they have ended and closes it.  A
\* cancelled task ends at the await it is in, whether or not the reply it
\* waited for has arrived: send_alert and the lookups catch Exception only
MainReturns ==
    /\ main = "cleanup"
    /\ main' = "exited"
    /\ tasks' = CancelAll(tasks)
    /\ UNCHANGED <<now, clusters, _oi_cache, _funding_cache, _http_session, ws,
                   reconnect_delay, nextId, last, fed, probe, tg_errors, retries>>

\* a TEXT message, while the runs of the whole loop take messages
WsLoopText == nextId <= MaxLoopEvents /\ WsText

\* the reconnect loop, the alert tasks it creates and the shutdown
NextWs ==
    WsStart \/ WsConnect \/ WsConnectFail \/ WsLoopText \/ WsSkip \/ WsClose \/ WsSleep
    \/ RunTask \/ WsOiReply \/ WsOiHistReply \/ WsFundingReply \/ TelegramReply
    \/ MainCancelled \/ WsLeft \/ MainSessionClosed \/ MainReturns

SpecWs == Init /\ [][NextWs]_vars

\* replies to the alert units of the shutdown runs: each request succeeds or
\* raises
ExitOiReplies == {[kind |-> "exception"], [kind |-> "ok", openInterest |-> 110]}
ExitHistReplies == {[kind |-> "exception"], [kind |-> "ok", samples |-> <<90, 100>>]}
ExitFundingReplies == {[kind |-> "exception"], [kind |-> "ok", lastFundingRate |-> 0 - 3749]}

ExitOiReply == \E i \in 1..Len(tasks), r \in ExitOiReplies : OiResponse(i, r)
ExitOiHistReply == \E i \in 1..Len(tasks), h \in ExitHistReplies : OiHistResponse(i, h)
ExitFundingReply == \E i \in 1..Len(tasks), r \in ExitFundingReplies : FundingResponse(i, r)

\* the receive loop and its alert tasks up to and through the shutdown
NextShutdown ==
    WsStart \/ WsConnect \/ WsText \/ RunTask \/ ExitOiReply \/ ExitOiHistReply
    \/ ExitFundingReply \/ TelegramReply
    \/ MainCancelled \/ WsLeft \/ MainSessionClosed \/ MainReturns

SpecShutdown == Init /\ [][NextShutdown]_vars

\* ---------------------------------------------------------------- classifier calls
PrioTotals == {0, 500000, 500001, 2000000, 2000001}
PrioOiChanges ==
    {None} \cup {Some(v) : v \in {0, 500, 501, 1000, 1001,
                                  0 - 500, 0 - 501, 0 - 1000, 0 - 1001}}

InitClassifier ==
    /\ now = 0
    /\ clusters = [s \in Symbols |-> <<>>]
    /\ tasks = <<>>
    /\ _oi_cache = <<>>
    /\ _funding_cache = <<>>
    /\ _http_session = "None"
    /\ ws = "connecting"
    /\ reconnect_delay = 1
    /\ nextId = 1
    /\ last = [kind |-> "none"]
    /\ fed = <<>>
    /\ probe \in {[kind |-> "args", total1 |-> t1, oi1 |-> o1, total2 |-> t2, oi2 |-> o2] :
                     t1 \in PrioTotals, t2 \in PrioTotals,
                     o1 \in PrioOiChanges, o2 \in PrioOiChanges}
    /\ main = "running"
    /\ tg_errors = 0
    /\ retries = 0

\* get_priority is called on both pairs of arguments
Classify ==
    /\ probe.kind = "args"
    /\ probe' = [kind |-> "results",
                 total1 |-> probe.total1, oi1 |-> probe.oi1,
                 total2 |-> probe.total2, oi2 |-> probe.oi2,
                 priority1 |-> get_priority(probe.total1, probe.oi1),
                 priority2 |-> get_priority(probe.total2, probe.oi2)]
    /\ UNCHANGED <<now, clusters, tasks, _oi_cache, _funding_cache, _http_session,
                   ws, reconnect_delay, nextId, last, fed, main, tg_errors, retries>>

NextClassifier == Classify

SpecClassifier == InitClassifier /\ [][NextClassifier]_vars

\* ================================================================ claims
\* a step that is a call of process_liquidation which accepted its event
AcceptedStep == nextId' = nextId + 1 /\ last'.kind = "accepted"

\* the entries of symbol s that are younger than the window at the clock reading now
LiveEntries(s) == SelectSeq(clusters[s], LAMBDA x : now - x.ts < CLUSTER_WINDOW)

\* C1: for every accepted event an alert task is created if and only if the sum
\* of usd_size over the symbol's live entries plus the new event is at least
\* MIN_LIQ_USD * 3, and a step that creates the task leaves the symbol's entry
\* list empty.
C1_FiresIffThreshold ==
    [][AcceptedStep =>
         LET s == last'.symbol
             liveTotal == SumUsd(LiveEntries(s)) + last'.usd_size
             dispatched == Len(tasks') = Len(tasks) + 1
         IN  /\ dispatched <=> liveTotal >= MIN_LIQ_USD * 3
             /\ ~dispatched => tasks' = tasks
             /\ dispatched =>
                    /\ clusters'[s] = <<>>
                    /\ tasks'[Len(tasks')].symbol = s
                    /\ tasks'[Len(tasks')].total = liveTotal
                    /\ tasks'[Len(tasks')].pc = "start"]_vars

\* an alert was dispatched for a total of exactly the threshold, accumulated
\* over three entries, and the symbol's list is empty
C1_Witness ==
    /\ last.kind = "accepted" /\ last.fired /\ last.total = MIN_LIQ_USD * 3
    /\ tasks # <<>> /\ Cardinality(tasks[Len(tasks)].entries) = 3
    /\ clusters[last.symbol] = <<>>

\* C2: a call with usd_size below MIN_LIQ_USD (zero and negative included)
\* changes no symbol's entries and creates no alert task; and as long as no
\* event has been accepted, no task exists and every entry list is empty.
C2_BelowFloorDiscarded ==
    /\ [](nextId = 1 => tasks = <<>> /\ \A s \in Symbols : clusters[s] = <<>>)
    /\ [][(/\ last'.kind # "none"
           /\ last'.usd_size < MIN_LIQ_USD
           /\ <<last, nextId>>' # <<last, nextId>>)
          => /\ clusters' = clusters
             /\ tasks' = tasks
             /\ nextId' = nextId
             /\ ~last'.fired]_vars

\* a negative event was discarded while its symbol held two entries
C2_Witness ==
    /\ last.kind = "discarded" /\ last.usd_size < 0
    /\ Len(clusters[last.symbol]) = 2

\* C3 (as claimed): the total of an accepted event is the sum over the entries
\* whose timestamp is >= now - CLUSTER_WINDOW, the boundary included, plus the
\* new event.
C3_InclusiveWindowTotal ==
    [][AcceptedStep =>
         last'.total =
             SumUsd(SelectSeq(clusters[last'.symbol],
                              LAMBDA x : x.ts >= now - CLUSTER_WINDOW))
             + last'.usd_size]_vars

\* C4: no liquidation entry is summed into two alerts, and no entry summed
\* into an alert is still stored in a symbol's list.
C4_EntryInAtMostOneAlert ==
    /\ \A i, j \in 1..Len(tasks) :
           i # j => tasks[i].entries \cap tasks[j].entries = {}
    /\ \A i \in 1..Len(tasks), s \in Symbols :
           tasks[i].entries \cap Ids(clusters[s]) = {}

\* two alerts were dispatched for one symbol, the first from several entries
C4_Witness ==
    /\ Len(tasks) >= 2
    /\ tasks[1].symbol = tasks[2].symbol
    /\ Cardinality(tasks[1].entries) >= 2

\* the documented scenario, as the events fed
Scen3 == <<<<40, 0>>, <<40, 10>>, <<40, 20>>>>
Scen4 == Append(Scen3, <<100, 30>>)
Scen5 == Append(Scen4, <<90, 40>>)

\* C5 (as claimed): 40, 40, 40 accumulate to 120 without firing, 100 more
\* gives 220 without firing, 90 more gives 310 and fires with total 310,
\* leaving the entries empty.
C5_ScenarioAsClaimed ==
    /\ fed = Scen3 =>
           /\ last.kind = "accepted" /\ last.total = 120
           /\ tasks = <<>>
    /\ fed = Scen4 =>
           /\ last.kind = "accepted" /\ last.total = 220
           /\ tasks = <<>>
    /\ fed = Scen5 =>
           /\ last.kind = "accepted" /\ last.total = 310 /\ last.fired
           /\ Len(tasks) = 1 /\ tasks[1].total = 310
           /\ clusters["ABCUSDT"] = <<>>

\* C5 (amended): the three events of 40 are below the floor of 100 and are
\* discarded, storing nothing; the event of 100 at t=30 gives total 100 and
\* does not fire; the event of 90 at t=40 is discarded; no alert is
\* dispatched and the symbol holds exactly the entry of 100.
C5_ScenarioAmended ==
    /\ fed = Scen3 =>
           /\ last.kind = "discarded"
           /\ clusters["ABCUSDT"] = <<>>
           /\ tasks = <<>>
    /\ fed = Scen4 =>
           /\ last.kind = "accepted" /\ last.total = 100 /\ ~last.fired
           /\ Len(clusters["ABCUSDT"]) = 1
           /\ tasks = <<>>
    /\ fed = Scen5 =>
           /\ last.kind = "discarded" /\ last.usd_size = 90
           /\ Len(clusters["ABCUSDT"]) = 1
           /\ clusters["ABCUSDT"][1].usd = 100 /\ clusters["ABCUSDT"][1].ts = 30
           /\ tasks = <<>>

\* the whole scenario was fed
C5_Witness == fed = Scen5

\* task i waits for a reply to its open-interest lookup
OiInFlight(i) == tasks[i].pc \in {"oi_get", "oi_hist"}
\* task i waits for a reply to its funding lookup
FundingInFlight(i) == tasks[i].pc = "funding_get"

\* C6 (as claimed): for each symbol at most one open-interest fetch and at
\* most one funding fetch is in flight at a time, and two get_binance_oi calls
\* less than one TTL apart issue at most one upstream fetch between them.
C6_SingleFlight ==
    \A i, j \in 1..Len(tasks) :
        (i # j /\ tasks[i].symbol = tasks[j].symbol) =>
            /\ ~(OiInFlight(i) /\ OiInFlight(j))
            /\ ~(FundingInFlight(i) /\ FundingInFlight(j))
            /\ (tasks[i].oi_src = "fetch" /\ tasks[j].oi_src = "fetch")
                   => Abs(tasks[i].oi_now - tasks[j].oi_now) >= OI_CACHE_TTL

\* steps of task i: it calls get_binance_oi, its openInterest request ends
\* without a usable value, it calls get_binance_funding, its premiumIndex
\* request fails
OiCall(i) == tasks[i].pc = "start" /\ tasks'[i].pc # "start"
OiFailed(i) == tasks[i].pc = "oi_get" /\ tasks'[i].pc \notin {"oi_get", "oi_hist"}
FundingCall(i) ==
    /\ tasks[i].pc \in {"start", "oi_get", "oi_hist"}
    /\ tasks'[i].pc \in {"funding_get", "tg_post"}
FundingFailed(i) ==
    /\ tasks[i].pc = "funding_get" /\ tasks'[i].pc # "funding_get"
    /\ tasks'[i].funding = None

\* C7: a lookup that fails returns absent and caches (absent, time of the
\* call); a lookup called while the cache holds an absent value of age below
\* the TTL returns absent from the cache with no upstream request, and one
\* called at an age of the TTL or more issues the upstream request; for the
\* open-interest cache (TTL 30) and the funding cache (TTL 60) alike.
C7_FailureCachedForTtl ==
    [][\A i \in 1..Len(tasks) :
         LET k == tasks[i].symbol
         IN  /\ OiFailed(i) =>
                    /\ tasks'[i].oi_change = None
                    /\ _oi_cache'[k] = <<None, tasks[i].oi_now>>
             /\ (OiCall(i) /\ k \in DOMAIN _oi_cache /\ _oi_cache[k][1] = None) =>
                    IF now - _oi_cache[k][2] < OI_CACHE_TTL
                    THEN /\ tasks'[i].oi_src = "cache"
                         /\ tasks'[i].oi_change = None
                         /\ ~OiInFlight(i)'
                         /\ _oi_cache' = _oi_cache
                    ELSE /\ tasks'[i].oi_src = "fetch"
                         /\ tasks'[i].pc = "oi_get"
             /\ FundingFailed(i) =>
                    _funding_cache'[k] = <<None, tasks[i].f_now>>
             /\ (FundingCall(i) /\ k \in DOMAIN _funding_cache
                     /\ _funding_cache[k][1] = None) =>
                    IF now - _funding_cache[k][2] < FUNDING_CACHE_TTL
                    THEN /\ tasks'[i].funding = None
                         /\ tasks'[i].pc = "tg_post"
                         /\ _funding_cache' = _funding_cache
                    ELSE tasks'[i].pc = "funding_get"]_vars

\* the scenario: the lookup at t=0 failed, the one at t=10 was served absent
\* from the cache, the one at t=31 has its upstream request in flight
C7_Witness ==
    /\ Len(tasks) = 3 /\ now = 31
    /\ tasks[1].oi_src = "fetch" /\ tasks[1].oi_now = 0 /\ tasks[1].oi_change = None
    /\ tasks[2].oi_src = "cache" /\ tasks[2].oi_now = 10 /\ tasks[2].oi_change = None
    /\ tasks[3].oi_src = "fetch" /\ tasks[3].oi_now = 31 /\ tasks[3].pc = "oi_get"
    /\ _oi_cache["XYZUSDT"] = <<None, 0>>

\* C8 (as claimed): when the open-interest history has fewer than two samples
\* or its lookup fails, get_binance_oi returns absent, and the label of the
\* alert differs from the label of an open-interest change of exactly 0.
C8_ShortHistoryIsAbsent ==
    \A i \in 1..Len(tasks) :
        tasks[i].hist \in {"short", "failed"} =>
            /\ tasks[i].oi_change = None
            /\ tasks[i].pc = "tg_post" =>
                   /\ tasks[i].mm = "UNCLEAR"
                   /\ tasks[i].mm # get_mm_label(Some(0), tasks[i].funding)

\* the tier order LOW < MEDIUM < HIGH < MAX
Rank(p) ==
    CASE p = "LOW" -> 0 [] p = "MEDIUM" -> 1 [] p = "HIGH" -> 2 [] p = "MAX" -> 3
\* the size of an open-interest swing, an absent one being the smallest
Swing(oi_change) == IF oi_change = None THEN 0 ELSE Abs(oi_change[1])

\* C9: for two calls of get_priority, a total that is not smaller with the
\* same oi_change, or a swing |oi_change| that is not smaller with the same
\* total, gives a tier that is not lower.
C9_PriorityMonotone ==
    probe.kind = "results" =>
        /\ (probe.total1 <= probe.total2 /\ probe.oi1 = probe.oi2)
               => Rank(probe.priority1) <= Rank(probe.priority2)
        /\ (probe.total1 = probe.total2 /\ Swing(probe.oi1) <= Swing(probe.oi2))
               => Rank(probe.priority1) <= Rank(probe.priority2)

\* at the same total, a negative swing above 10 percent raised the tier of
\* an absent open-interest change from LOW to HIGH
C9_Witness ==
    /\ probe.kind = "results"
    /\ probe.total1 = probe.total2
    /\ probe.oi1 = None /\ probe.oi2 # None /\ probe.oi2[1] < 0 - 1000
    /\ probe.priority1 = "LOW" /\ probe.priority2 = "HIGH"

\* C10: whenever the connection is up the receive loop can take its next
\* message, and can accept an event for every symbol, whatever the number and
\* the progress of the send_alert tasks in flight.
C10_IngestionNotBlocked ==
    ws = "connected" =>
        /\ ENABLED WsSkip
        /\ nextId <= MaxWsEvents =>
               \A symbol \in Symbols : ENABLED WsTextOn(symbol)

\* two alerts of one symbol wait on the network, the second fired by an
\* event processed while the first was in flight, and the loop is receiving
C10_Witness ==
    /\ ws = "connected"
    /\ Len(tasks) = 2
    /\ tasks[1].symbol = tasks[2].symbol
    /\ tasks[1].pc \in {"oi_get", "oi_hist", "funding_get", "tg_post"}
    /\ tasks[2].pc \in {"oi_get", "oi_hist", "funding_get", "tg_post"}
    /\ last.kind = "accepted" /\ last.fired /\ last.symbol = tasks[1].symbol

\* a step of task i: its sendMessage request ended with a status other than
\* 200 or raised
TelegramFailed(i) ==
    /\ tasks[i].pc = "tg_post" /\ tasks'[i].pc # "tg_post"
    /\ tg_errors' = tg_errors + 1

\* C11: a failure inside one send_alert task (the openInterest request, the
\* premiumIndex request or the sendMessage request fails) leaves the entries
\* of every symbol as they were, leaves binance_ws and main where they are,
\* creates and changes no other task, and the failing task itself goes on to
\* its next stage or returns.
C11_FailureContained ==
    [][\A i \in 1..Len(tasks) :
         /\ (OiFailed(i) \/ FundingFailed(i) \/ TelegramFailed(i)) =>
                /\ clusters' = clusters
                /\ <<ws, reconnect_delay, main>>' = <<ws, reconnect_delay, main>>
                /\ Len(tasks') = Len(tasks)
                /\ \A j \in 1..Len(tasks) : j # i => tasks'[j] = tasks[j]
         /\ OiFailed(i) => tasks'[i].pc \in {"funding_get", "tg_post"}
         /\ FundingFailed(i) => tasks'[i].pc = "tg_post"
         /\ TelegramFailed(i) => tasks'[i].pc = "done"]_vars

\* one task went through a failed open-interest lookup, a failed funding
\* lookup and a failed notification, while the loop is connected, another
\* task still waits on the network
C11_Witness ==
    /\ ws = "connected" /\ tg_errors >= 1
    /\ \E i, j \in 1..Len(tasks) :
           /\ tasks[i].pc = "done" /\ tasks[i].oi_src = "fetch"
           /\ tasks[i].oi_change = None
           /\ _funding_cache # <<>>
           /\ \E s \in DOMAIN _funding_cache : _funding_cache[s][1] = None
           /\ tasks[j].pc \in {"oi_get", "oi_hist", "funding_get", "tg_post"}

\* the delay after k sleeps in a row: 1, 2, 4, 8, 16, 30, 30, ...
BackoffDelay(k) == IF k >= 5 THEN 30 ELSE 2 ^ k

\* C12: reconnect_delay is always within 1..30, and after k sleeps since the
\* loop started or last connected it is the k-th doubling of 1 capped at 30,
\* so the delays slept in a row are 1, 2, 4, 8, 16, 30, 30, ...
C12_BackoffSequence ==
    /\ reconnect_delay \in 1..30
    /\ reconnect_delay = BackoffDelay(retries)
    /\ ws = "connected" => reconnect_delay = 1

\* the loop is about to sleep for the seventh time in a row, at the cap,
\* while the alert of its last connection waits for Telegram
C12_Witness ==
    /\ ws = "backoff" /\ retries = 6 /\ reconnect_delay = 30
    /\ \E i \in 1..Len(tasks) : tasks[i].pc = "tg_post"

\* C13 (as claimed): establishing a connection does not by itself reset
\* reconnect_delay; only a connection that has been held for some time does,
\* so a connection that is made and lost at once leaves the delay growing.
C13_ResetOnlyAfterHeld ==
    [][(ws = "connecting" /\ ws' = "connected")
          => reconnect_delay' = reconnect_delay]_vars

\* a step that skips a message
SkipStep == last'.kind = "skipped" /\ last.kind # "skipped"

\* C14: a skipped message leaves the connection, the entries and the tasks as
\* they are and the loop ready for the next message; a lost connection or a
\* failed attempt leads to the sleep, and the sleep to a new attempt; the
\* loop is left only by the cancellation of main.
C14_OnlyCancellationEndsLoop ==
    /\ [](main = "running" =>
            /\ ws \in {"connecting", "connected", "backoff", "leaving"}
            /\ ws = "leaving" => ENABLED WsLeft
            /\ ws = "connected" => ENABLED WsSkip
            /\ (ws = "connected" /\ nextId <= MaxWsEvents) =>
                   \A s \in Symbols : ENABLED WsTextOn(s)
            /\ ws = "backoff" => ENABLED WsSleep
            /\ (ws = "connecting" /\ _http_session = "None") => ENABLED WsStart
            /\ (ws = "connecting" /\ _http_session # "None") =>
                   ENABLED WsConnect /\ ENABLED WsConnectFail)
    /\ [][/\ SkipStep =>
                /\ ws = "connected" /\ ws' = "connected"
                /\ <<clusters, tasks, nextId>>' = <<clusters, tasks, nextId>>
          /\ (ws = "connected" /\ ws' # "connected") =>
                ws' = "backoff" \/ MainCancelled
          /\ (ws = "backoff" /\ ws' # "backoff") =>
                ws' = "connecting" \/ MainCancelled
          /\ (ws = "connecting" /\ ws' # "connecting") =>
                ws' \in {"connected", "backoff"} \/ MainCancelled
          /\ (ws = "leaving" /\ ws' # "leaving") => ws' = "stopped"
          /\ ws' = "stopped" => main' # "running"]_vars

\* a connection accepted an event and skipped a message and was then lost;
\* the loop slept and is making its next attempt
C14_Witness ==
    /\ main = "running" /\ ws = "connecting" /\ retries = 1
    /\ last.kind = "skipped" /\ nextId = 2
    /\ \E i \in 1..Len(tasks) : tasks[i].pc = "funding_get"

C16_AtMostOneSendAttempt ==
    /\ [](\A i \in 1..Len(tasks) :
            /\ tasks[i].posts = IF tasks[i].pc \in {"tg_post", "done"} THEN 1 ELSE 0
            /\ \A s \in Symbols : tasks[i].entries \cap Ids(clusters[s]) = {}
            /\ \A j \in 1..Len(tasks) :
                   j # i => tasks[i].entries \cap tasks[j].entries = {})
    /\ [][\A i \in 1..Len(tasks) :
            /\ tasks[i].pc = "tg_post" => tasks'[i].pc \in {"tg_post", "done"}
            /\ TelegramFailed(i) =>
                   /\ tasks'[i].pc = "done" /\ tasks'[i].posts = 1
                   /\ clusters' = clusters
                   /\ Len(tasks') = Len(tasks)]_vars

\* the notification of every alert dispatched has failed: each task has
\* returned after its one attempt and the entries of its symbol are gone
C16_Witness ==
    /\ Len(tasks) >= 1 /\ tg_errors = Len(tasks)
    /\ \A i \in 1..Len(tasks) :
           /\ tasks[i].pc = "done" /\ tasks[i].posts = 1
           /\ clusters[tasks[i].symbol] = <<>>

\* C17 (as claimed): get_priority has four results, and a total above the
\* largest size threshold together with an open-interest swing above the
\* largest swing threshold gives "MAX".
C17_MaxTierReached ==
    (/\ probe.kind = "results"
     /\ probe.total1 > 2000000
     /\ probe.oi1 # None /\ Abs(probe.oi1[1]) > 1000)
        => probe.priority1 = "MAX"

\* C18 (as claimed): the alert created by a call carries the side and the
\* price of the event of that call and the total over the entries summed, and
\* the count in the "Cluster:" log line is the number of those entries, 1 at
\* least.
C18_SnapshotAndCount ==
    (last.kind = "accepted" /\ last.fired) =>
        LET task == tasks[Len(tasks)]
        IN  /\ task.symbol = last.symbol
            /\ task.side = last.side /\ task.price = last.price
            /\ task.total = last.total
            /\ last.logged = Cardinality(task.entries)
            /\ last.logged >= 1

\* C19: between two calls of process_liquidation every symbol's stored
\* entries sum to less than MIN_LIQ_USD * 3 and each is at least MIN_LIQ_USD,
\* so a symbol stores at most 2 entries and an alert sums at most 3.
C19_StoredBelowThreshold ==
    /\ \A s \in Symbols :
           /\ SumUsd(clusters[s]) < MIN_LIQ_USD * 3
           /\ \A k \in 1..Len(clusters[s]) : clusters[s][k].usd >= MIN_LIQ_USD
           /\ Len(clusters[s]) <= 2
    /\ \A i \in 1..Len(tasks) : Cardinality(tasks[i].entries) \in 1..3

\* a symbol stores two entries while an alert was dispatched for another
C19_Witness ==
    /\ \E s \in Symbols : Len(clusters[s]) = 2 /\ SumUsd(clusters[s]) = 2 * MIN_LIQ_USD
    /\ tasks # <<>>

\* C20 (as claimed): when the shutdown has completed, the session that
\* close_http_session closed has not been replaced: _http_session is None.
C20_NoSessionAfterShutdown ==
    main = "exited" => _http_session = "None"

====
